---- MODULE Spec2Model ----
(***************************************************************************)
(* A model of DQNAgent (a3/dqn_agent.py): the exploration schedule, the    *)
(* epsilon-greedy action choice, the Bellman target, the TD loss, and the  *)
(* target-network synchronisation inside the update loop.                  *)
(*                                                                         *)
(* Numbers are exact rationals extended with the IEEE values nan and       *)
(* +/-inf (torch arithmetic never raises on a division by zero); rounding  *)
(* of finite values is not modelled.  Parameter tensors live in a store    *)
(* indexed by storage id, so that sharing storage and copying values are   *)
(* different things.                                                       *)
(***************************************************************************)
EXTENDS Integers, Sequences, FiniteSets, TLC

VARIABLES
    store,                \* storage id -> tensor data (a sequence of integers)
    model,                \* self._model.parameters(): storage ids, in order
    tar_model,            \* self._tar_model.parameters(): storage ids, in order
    pc,                   \* where the agent is
    iter,                 \* self._iter
    upd_i,                \* the loop variable i of _update_model
    updates_per_iter,     \* self._updates_per_iter
    tar_net_update_iters, \* self._tar_net_update_iters
    tar_on_entry,         \* history: target values when _update_model was entered
    tar_at_sync,          \* history: target values right after the last sync
    mode,                 \* self._mode
    sample_count,         \* self._sample_count
    exp_anneal_samples,   \* self._exp_anneal_samples
    exp_prob_beg,         \* self._exp_prob_beg
    exp_prob_end,         \* self._exp_prob_end
    exp_log,              \* the logger: the last two Exp_Prob entries
    act,                  \* the last _decide_action call: qs, a, and how a was drawn
    discount,             \* self._discount
    batch,                \* the arguments of the last loss computation
    tar_vals,             \* the last result of _compute_tar_vals
    loss                  \* the last result of _compute_q_loss

netVars   == <<store, model, tar_model>>
trainVars == <<iter, upd_i, updates_per_iter, tar_net_update_iters, tar_on_entry, tar_at_sync>>
expCfg    == <<exp_anneal_samples, exp_prob_beg, exp_prob_end>>
actVars   == <<mode, sample_count, exp_log, act>>
lossVars  == <<discount, batch, tar_vals, loss>>
vars      == <<netVars, pc, trainVars, expCfg, actVars, lossVars>>

----------------------------------------------------------------------------
(* Bounds of the model *)

MaxBatch     == 2   \* rows in a batch
MaxSamples   == 3   \* cap of the sample counter
MaxStride    == 2   \* samples added between two decisions
MaxAnneal    == 2   \* largest finite anneal horizon
MaxIter      == 3   \* cap of the iteration counter
MaxUpdates   == 2   \* largest updates_per_iter
MaxSyncIters == 2   \* largest tar_net_update_iters
MaxTensors   == 2   \* parameter tensors of a network in the sync contract check
MaxDim       == 2   \* elements of a parameter tensor in the sync contract check

----------------------------------------------------------------------------
(* Numbers: [k, n, d] with k in fin / nan / inf; fin is n/d in lowest      *)
(* terms with d > 0, inf carries its sign in n.                            *)

Abs(x) == IF x < 0 THEN -x ELSE x

RECURSIVE GCD(_, _)
GCD(x, y) == IF y = 0 THEN x ELSE GCD(y, x % y)

Rat(n, d) ==
    LET s == IF d < 0 THEN -1 ELSE 1
        g == GCD(Abs(n), Abs(d))
    IN  [k |-> "fin", n |-> (s * n) \div g, d |-> (s * d) \div g]

Num(i)    == [k |-> "fin", n |-> i, d |-> 1]
NaN       == [k |-> "nan", n |-> 0, d |-> 1]
Inf(sign) == [k |-> "inf", n |-> sign, d |-> 1]

Sign(x) == IF x.n > 0 THEN 1 ELSE IF x.n < 0 THEN -1 ELSE 0

FNeg(x) == [x EXCEPT !.n = -x.n]

FAdd(x, y) ==
    IF x.k = "nan" \/ y.k = "nan" THEN NaN
    ELSE IF x.k = "inf" /\ y.k = "inf" THEN (IF x.n = y.n THEN x ELSE NaN)
    ELSE IF x.k = "inf" THEN x
    ELSE IF y.k = "inf" THEN y
    ELSE Rat(x.n * y.d + y.n * x.d, x.d * y.d)

FSub(x, y) == FAdd(x, FNeg(y))

FMul(x, y) ==
    IF x.k = "nan" \/ y.k = "nan" THEN NaN
    ELSE IF x.k = "inf" \/ y.k = "inf"
         THEN (IF Sign(x) * Sign(y) = 0 THEN NaN ELSE Inf(Sign(x) * Sign(y)))
    ELSE Rat(x.n * y.n, x.d * y.d)

\* x / y as torch divides: a zero divisor gives nan or inf, never an exception
FDiv(x, y) ==
    IF x.k = "nan" \/ y.k = "nan" THEN NaN
    ELSE IF x.k = "inf" THEN (IF y.k = "inf" THEN NaN
                              ELSE Inf(x.n * (IF y.n < 0 THEN -1 ELSE 1)))
    ELSE IF y.k = "inf" THEN Num(0)
    ELSE IF y.n = 0 THEN (IF x.n = 0 THEN NaN ELSE Inf(Sign(x)))
    ELSE Rat(x.n * y.d, x.d * y.n)

\* x < y; every comparison with nan is false
FLess(x, y) ==
    IF x.k = "nan" \/ y.k = "nan" THEN FALSE
    ELSE IF x.k = "inf" THEN x.n < 0 /\ ~(y.k = "inf" /\ y.n < 0)
    ELSE IF y.k = "inf" THEN y.n > 0
    ELSE x.n * y.d < y.n * x.d

FLeq(x, y) == x.k # "nan" /\ y.k # "nan" /\ ~FLess(y, x)

\* torch.clamp(x, min=lo, max=hi): nan stays nan
FClamp(x, lo, hi) ==
    IF x.k = "nan" THEN NaN
    ELSE IF FLess(x, lo) THEN lo
    ELSE IF FLess(hi, x) THEN hi
    ELSE x

----------------------------------------------------------------------------
(* Networks.  A network is the list of its parameter tensors; the tensor   *)
(* of observation o holds one Q-value per action (a lookup table).         *)

\* self._obs_norm.normalize(obs): observations are abstract ids here
normalize(obs) == obs

\* net.eval_q(norm_obs): one row of Q-values per batch row
eval_q(net, st, norm_obs) == [r \in 1..Len(norm_obs) |-> st[net[norm_obs[r]]]]

\* the values of a network's parameters, in order
ParamVals(net, st) == [i \in 1..Len(net) |-> st[net[i]]]

----------------------------------------------------------------------------
(* _get_exp_prob, lines 123-139 *)

\* a variant with the two end points exchanged
GetExpProbSwapped(n, horizon, p0, p1) ==
    LET l == FClamp(FDiv(Num(n), horizon), Num(0), Num(1))
    IN  FAdd(FMul(FSub(Num(1), l), p1), FMul(l, p0))

\* l = clamp(sample_count / exp_anneal_samples, 0, 1);
\* prob = (1 - l) * exp_prob_beg + l * exp_prob_end
GetExpProb(n, horizon, p0, p1) ==
    LET l == FClamp(FDiv(Num(n), horizon), Num(0), Num(1))
    IN  FAdd(FMul(FSub(Num(1), l), p0), FMul(l, p1))

----------------------------------------------------------------------------
(* torch.argmax(qs, dim=-1) on one row: a left-to-right scan that keeps    *)
(* the first maximal value; the result is a 0-based index.                 *)

RECURSIVE ScanMax(_, _, _, _)
ScanMax(row, i, best, strict) ==
    IF i > Len(row) THEN best
    ELSE IF row[i] > row[best] \/ (~strict /\ row[i] = row[best])
         THEN ScanMax(row, i + 1, i, strict)
         ELSE ScanMax(row, i + 1, best, strict)

\* a variant: the last maximal value wins
ArgMaxLast(row) == ScanMax(row, 2, 1, FALSE) - 1

ArgMax(row) == ScanMax(row, 2, 1, TRUE) - 1

\* torch.max(qs, dim=-1)[0] on one row
RowMax(row) == row[ArgMax(row) + 1]

----------------------------------------------------------------------------
(* _sample_action, lines 141-166.  Coins are the values torch.rand(1) can  *)
(* return, all in [0, 1).  An outcome records the actions, which rows were *)
(* drawn at random, and how many coins were flipped.                       *)

Coins == {Rat(0, 1), Rat(1, 4), Rat(1, 2), Rat(3, 4)}

Rows(qs) == 1..Len(qs)

\* a variant: one coin per row
SampleActionPerRow(qs, exp_prob) ==
    LET num_actions == Len(qs[1])
        explore == \E u \in Coins : FLess(u, exp_prob)
        exploit == \E u \in Coins : ~FLess(u, exp_prob)
        flags   == {f \in [Rows(qs) -> BOOLEAN] :
                        /\ (\E r \in Rows(qs) : f[r]) => explore
                        /\ (\E r \in Rows(qs) : ~f[r]) => exploit}
    IN  UNION {{[a |-> a, drawn |-> f, flips |-> Len(qs)] :
                   a \in {b \in [Rows(qs) -> 0..(num_actions - 1)] :
                             \A r \in Rows(qs) : ~f[r] => b[r] = ArgMax(qs[r])}} :
               f \in flags}

SampleAction(qs, exp_prob) ==
    LET greedy_action_idx == [r \in Rows(qs) |-> ArgMax(qs[r])]
        num_actions == Len(qs[1])
        explore == \E u \in Coins : FLess(u, exp_prob)
        exploit == \E u \in Coins : ~FLess(u, exp_prob)
    IN  (IF explore
         THEN {[a |-> a, drawn |-> [r \in Rows(qs) |-> TRUE], flips |-> 1] :
                  a \in [Rows(qs) -> 0..(num_actions - 1)]}
         ELSE {})
        \cup
        (IF exploit
         THEN {[a |-> greedy_action_idx, drawn |-> [r \in Rows(qs) |-> FALSE], flips |-> 1]}
         ELSE {})

----------------------------------------------------------------------------
(* Values shared by the specifications *)

ProbSet  == {Rat(0, 1), Rat(1, 2), Rat(1, 1)}
Horizons == {Num(h) : h \in 0..MaxAnneal} \cup {Inf(1)}   \* np.inf when unset

NoAct == [mode |-> "NONE", obs |-> <<>>, qs |-> <<>>, exp_prob |-> NaN,
          a |-> <<>>, drawn |-> <<>>, flips |-> 0]

\* both networks built from one configuration: two tensors each, in
\* storages 1,2 (online) and 3,4 (target)
OnlineIds == <<1, 2>>
TargetIds == <<3, 4>>

Batches(S) == UNION {[1..b -> S] : b \in 1..MaxBatch}

\* the logger keeps the last two entries
Push(log, e) == IF Len(log) < 2 THEN Append(log, e) ELSE <<log[2], e>>

trainIdle ==
    /\ iter = 0 /\ upd_i = 0 /\ updates_per_iter = 1 /\ tar_net_update_iters = 1
    /\ tar_on_entry = <<>> /\ tar_at_sync = [vals |-> <<>>, steps |-> 0]

actIdle ==
    /\ mode = "TRAIN" /\ sample_count = 0 /\ exp_log = <<>> /\ act = NoAct

expIdle ==
    /\ exp_anneal_samples = Inf(1) /\ exp_prob_beg = Num(1) /\ exp_prob_end = Num(1)

NoBatch == [obs |-> <<>>, action |-> <<>>, reward |-> <<>>, next_obs |-> <<>>, done |-> <<>>]

lossIdle ==
    /\ discount = Num(0) /\ batch = NoBatch /\ tar_vals = <<>> /\ loss = Num(0)

----------------------------------------------------------------------------
(* Base class: after a rollout, with no decided action pending, the        *)
(* samples it collected are added to the counter.                          *)

RecordSamples ==
    /\ pc = "ready"
    /\ act = NoAct
    /\ \E k \in 1..MaxStride :
          /\ sample_count + k <= MaxSamples
          /\ sample_count' = sample_count + k
    /\ UNCHANGED <<netVars, pc, trainVars, expCfg, mode, exp_log, act, lossVars>>

----------------------------------------------------------------------------
(* The exploration schedule as the run sees it: _log_train_info (103-106)  *)
(* logs _get_exp_prob() while the sample counter grows.                    *)

LogTrainInfo ==
    /\ pc = "ready"
    /\ exp_log' = Push(exp_log,
                       [n |-> sample_count,
                        p |-> GetExpProb(sample_count, exp_anneal_samples,
                                         exp_prob_beg, exp_prob_end)])
    /\ UNCHANGED <<netVars, pc, trainVars, expCfg, mode, sample_count, act, lossVars>>

InitExp ==
    /\ pc = "ready"
    /\ model = OnlineIds /\ tar_model = TargetIds
    /\ store = <<<<0, 0>>, <<0, 0>>, <<0, 0>>, <<0, 0>>>>
    /\ exp_anneal_samples \in Horizons
    /\ exp_prob_beg \in ProbSet
    /\ exp_prob_end \in ProbSet
    /\ actIdle /\ trainIdle /\ lossIdle

NextExp == LogTrainInfo \/ RecordSamples

SpecExp == InitExp /\ [][NextExp]_vars

----------------------------------------------------------------------------
(* Acting: _decide_action (57-69) with _sample_action; the base class      *)
(* switches the mode and applies each decided action to the environment.   *)

ActNets == [1..2 -> {<<0, 1>>, <<1, 0>>, <<1, 1>>}]

DecideAction(obs) ==
    /\ pc = "ready"
    /\ act = NoAct
    /\ LET norm_obs == normalize(obs)
           qs == eval_q(model, store, norm_obs)
       IN  \/ /\ mode = "TRAIN"
              /\ LET exp_prob == GetExpProb(sample_count, exp_anneal_samples,
                                            exp_prob_beg, exp_prob_end)
                 IN  \E o \in SampleAction(qs, exp_prob) :
                        act' = [mode |-> mode, obs |-> obs, qs |-> qs,
                                exp_prob |-> exp_prob, a |-> o.a,
                                drawn |-> o.drawn, flips |-> o.flips]
           \/ /\ mode = "TEST"
              /\ act' = [mode |-> mode, obs |-> obs, qs |-> qs, exp_prob |-> NaN,
                         a |-> [r \in Rows(qs) |-> ArgMax(qs[r])],
                         drawn |-> [r \in Rows(qs) |-> FALSE], flips |-> 0]
    /\ UNCHANGED <<netVars, pc, trainVars, expCfg, mode, sample_count, exp_log, lossVars>>

Decide == \E obs \in Batches(1..Len(model)) : DecideAction(obs)

\* base class: set_mode
SetMode(m) ==
    /\ pc = "ready"
    /\ act = NoAct
    /\ mode # m
    /\ mode' = m
    /\ UNCHANGED <<netVars, pc, trainVars, expCfg, sample_count, exp_log, act, lossVars>>

SwitchMode == \E m \in {"TRAIN", "TEST"} : SetMode(m)

\* base class: the rollout applies the decided action to the environment
StepEnv ==
    /\ pc = "ready"
    /\ act # NoAct
    /\ act' = NoAct
    /\ UNCHANGED <<netVars, pc, trainVars, expCfg, mode, sample_count, exp_log, lossVars>>

InitAct ==
    /\ pc = "ready"
    /\ model = OnlineIds /\ tar_model = TargetIds
    /\ \E net \in ActNets : store = net \o net
    /\ exp_anneal_samples \in Horizons
    /\ exp_prob_beg \in ProbSet
    /\ exp_prob_end \in ProbSet
    /\ actIdle /\ trainIdle /\ lossIdle

NextAct == Decide \/ StepEnv \/ SwitchMode \/ RecordSamples

SpecAct == InitAct /\ [][NextAct]_vars

----------------------------------------------------------------------------
(* _sync_tar_model, lines 209-221.  A sync state s carries the store, the  *)
(* target's parameter list and whether copy_ raised.                       *)

\* a variant of the copy: the target parameter is made to share the online
\* parameter's storage
TensorShare(s, i, online) ==
    [s EXCEPT !.tar_model[i] = online[i]]

\* target_param.data.copy_(param.data): the values are written into the
\* target's own storage; a one-element source is broadcast, any other
\* difference of shape raises
TensorCopy(s, i, online) ==
    LET src == s.store[online[i]]
        dst == s.store[s.tar_model[i]]
    IN  IF Len(src) = Len(dst)
        THEN [s EXCEPT !.store[s.tar_model[i]] = src]
        ELSE IF Len(src) = 1
        THEN [s EXCEPT !.store[s.tar_model[i]] = [j \in 1..Len(dst) |-> src[1]]]
        ELSE [s EXCEPT !.err = TRUE]

\* zip(...) stops at the end of the shorter parameter list
ZipLen(tar, online) == IF Len(tar) < Len(online) THEN Len(tar) ELSE Len(online)

RECURSIVE SyncFrom(_, _, _)
SyncFrom(s, i, online) ==
    IF s.err \/ i > ZipLen(s.tar_model, online) THEN s
    ELSE SyncFrom(TensorCopy(s, i, online), i + 1, online)

SyncTarModel(st, tar, online) ==
    SyncFrom([store |-> st, tar_model |-> tar, err |-> FALSE], 1, online)

----------------------------------------------------------------------------
(* The sync contract on arbitrary pairs of networks (SpecSync) *)

SyncTensors == UNION {[1..d -> {0, 1}] : d \in 1..MaxDim}
SyncNets    == UNION {[1..k -> SyncTensors] : k \in 1..MaxTensors}

SyncCall ==
    /\ pc = "built"
    /\ LET s == SyncTarModel(store, tar_model, model)
       IN  /\ store' = s.store
           /\ tar_model' = s.tar_model
           /\ pc' = IF s.err THEN "error" ELSE "synced"
    /\ UNCHANGED <<model, trainVars, expCfg, actVars, lossVars>>

InitSync ==
    /\ pc = "built"
    /\ \E on \in SyncNets, tg \in SyncNets :
          /\ store = on \o tg
          /\ model = [i \in 1..Len(on) |-> i]
          /\ tar_model = [i \in 1..Len(tg) |-> Len(on) + i]
    /\ trainIdle /\ expIdle /\ actIdle /\ lossIdle

NextSync == SyncCall

SpecSync == InitSync /\ [][NextSync]_vars

SameStructure ==
    /\ Len(model) = Len(tar_model)
    /\ \A i \in 1..Len(model) : Len(store[model[i]]) = Len(store[tar_model[i]])

----------------------------------------------------------------------------
(* Training: __init__ (14-18), _update_model (82-101), and the base        *)
(* class's iteration counter.                                              *)

TrainTensors == {<<0, 0>>, <<0, 1>>, <<1, 0>>}

TarValues    == ParamVals(tar_model, store)
OnlineValues == ParamVals(model, store)

\* a variant of the sync condition: sync on every call
ShouldSyncAlways(it, k) == TRUE

\* line 98: self._iter % self._tar_net_update_iters == 0
ShouldSync(it, k) == it % k = 0

\* __init__: the networks are built (each with its own initial values),
\* then the target is synced
Construct ==
    /\ pc = "built"
    /\ LET s == SyncTarModel(store, tar_model, model)
       IN  /\ store' = s.store
           /\ tar_model' = s.tar_model
           /\ pc' = IF s.err THEN "error" ELSE "ready"
           /\ tar_at_sync' = [vals |-> ParamVals(s.tar_model, s.store), steps |-> 0]
    /\ UNCHANGED <<model, iter, upd_i, updates_per_iter, tar_net_update_iters,
                   tar_on_entry, expCfg, actVars, lossVars>>

\* _update_model is entered: i = 0
UpdateModelEnter ==
    /\ pc = "ready"
    /\ pc' = "loop"
    /\ upd_i' = 0
    /\ tar_on_entry' = TarValues
    /\ UNCHANGED <<netVars, iter, updates_per_iter, tar_net_update_iters,
                   tar_at_sync, expCfg, actVars, lossVars>>

\* lines 87-94, one pass of the loop: a batch is sampled, its loss computed,
\* and self._optimizer.step(loss) writes new values into the online
\* network's parameters, in place; which values the optimizer's rule gives
\* is left open (the old ones included, for a zero gradient)
GradStep ==
    /\ pc = "loop"
    /\ upd_i < updates_per_iter
    /\ \E new \in [1..Len(model) -> TrainTensors] :
          store' = [id \in DOMAIN store |->
                       IF \E i \in 1..Len(model) : model[i] = id
                       THEN new[CHOOSE i \in 1..Len(model) : model[i] = id]
                       ELSE store[id]]
    /\ upd_i' = upd_i + 1
    /\ tar_at_sync' = [tar_at_sync EXCEPT !.steps = @ + 1]
    /\ UNCHANGED <<model, tar_model, pc, iter, updates_per_iter, tar_net_update_iters,
                   tar_on_entry, expCfg, actVars, lossVars>>

\* lines 96-101: after the loop the target is synced when the iteration
\* counter is a multiple of the interval; an interval of 0 makes % raise
UpdateModelTail ==
    /\ pc = "loop"
    /\ upd_i = updates_per_iter
    /\ IF tar_net_update_iters = 0
       THEN /\ pc' = "error"
            /\ UNCHANGED <<store, tar_model, tar_at_sync>>
       ELSE IF ShouldSync(iter, tar_net_update_iters)
       THEN LET s == SyncTarModel(store, tar_model, model)
            IN  /\ store' = s.store
                /\ tar_model' = s.tar_model
                /\ pc' = IF s.err THEN "error" ELSE "returned"
                /\ tar_at_sync' = [vals |-> ParamVals(s.tar_model, s.store), steps |-> 0]
       ELSE /\ pc' = "returned"
            /\ UNCHANGED <<store, tar_model, tar_at_sync>>
    /\ UNCHANGED <<model, iter, upd_i, updates_per_iter, tar_net_update_iters,
                   tar_on_entry, expCfg, actVars, lossVars>>

\* base class: the training loop counts the iteration and goes on
NextIter ==
    /\ pc = "returned"
    /\ iter < MaxIter
    /\ iter' = iter + 1
    /\ pc' = "ready"
    /\ UNCHANGED <<netVars, upd_i, updates_per_iter, tar_net_update_iters,
                   tar_on_entry, tar_at_sync, expCfg, actVars, lossVars>>

Init ==
    /\ pc = "built"
    /\ model = OnlineIds /\ tar_model = TargetIds
    /\ store \in [1..4 -> TrainTensors]
    /\ iter = 0 /\ upd_i = 0
    /\ updates_per_iter \in 1..MaxUpdates
    /\ tar_net_update_iters \in 0..MaxSyncIters
    /\ tar_on_entry = <<>>
    /\ tar_at_sync = [vals |-> <<>>, steps |-> 0]
    /\ expIdle /\ actIdle /\ lossIdle

Next == Construct \/ UpdateModelEnter \/ GradStep \/ UpdateModelTail \/ NextIter

Spec == Init /\ [][Next]_vars

\* C1: right after a sync every target parameter equals the online one, and
\* gradient steps on the online network leave the target at the values it
\* had right after the last sync.
C1_SyncCopiesByValue ==
    pc # "built" =>
        /\ TarValues = tar_at_sync.vals
        /\ tar_at_sync.steps = 0 => TarValues = OnlineValues

C1_Witness ==
    /\ pc = "loop"
    /\ tar_at_sync.steps = 2
    /\ TarValues = <<<<0, 1>>, <<0, 0>>>>
    /\ OnlineValues = <<<<0, 0>>, <<0, 1>>>>

\* C10: the target equals the online network when construction finishes; it
\* is unchanged during the gradient steps of _update_model; on return it
\* equals the updated online network when the iteration counter is a
\* multiple of tar_net_update_iters and is as on entry otherwise.
C10_TargetChangesOnlyAtSync ==
    /\ (pc = "ready" /\ iter = 0) => TarValues = OnlineValues
    /\ pc \in {"loop", "error"} => TarValues = tar_on_entry
    /\ pc = "returned" =>
          /\ upd_i = updates_per_iter
          /\ IF iter % tar_net_update_iters = 0
             THEN TarValues = OnlineValues
             ELSE TarValues = tar_on_entry

C10_Witness ==
    /\ pc = "returned"
    /\ iter = 3 /\ tar_net_update_iters = 2 /\ updates_per_iter = 2
    /\ TarValues = tar_on_entry
    /\ TarValues # OnlineValues

----------------------------------------------------------------------------
(* _compute_tar_vals (168-187), _compute_q_loss (189-207) and              *)
(* _compute_loss (108-119).                                                *)

RECURSIVE FSum(_)
FSum(v) == IF v = <<>> THEN Num(0) ELSE FAdd(v[1], FSum(Tail(v)))

\* torch.mean over all elements
Mean(v) == FDiv(FSum(v), Num(Len(v)))

\* a variant: the Q-values of next_obs are read from the online network
ComputeTarValsOnline(r, norm_next_obs, done) ==
    LET q_next == eval_q(model, store, norm_next_obs)
        max_q_next == [i \in 1..Len(q_next) |-> RowMax(q_next[i])]
    IN  [i \in 1..Len(r) |->
            FAdd(Num(r[i]),
                 FMul(FMul(discount, FSub(Num(1), Num(done[i]))), Num(max_q_next[i])))]

\* tar_vals = r + self._discount * (1 - done) * max_q_next
ComputeTarVals(r, norm_next_obs, done) ==
    LET q_next == eval_q(tar_model, store, norm_next_obs)
        max_q_next == [i \in 1..Len(q_next) |-> RowMax(q_next[i])]
    IN  [i \in 1..Len(r) |->
            FAdd(Num(r[i]),
                 FMul(FMul(discount, FSub(Num(1), Num(done[i]))), Num(max_q_next[i])))]

\* preds.gather(1, a.view(-1, 1)): a batch x 1 matrix
Gather(preds, a) == [i \in 1..Len(preds) |-> <<preds[i][a[i] + 1]>>]

\* m.squeeze() of a batch x 1 matrix: every dimension of size 1 goes, so a
\* single row becomes a scalar (dim 0) and more rows become a vector (dim 1)
Squeeze(m) ==
    IF Len(m) = 1 THEN [dim |-> 0, v |-> <<m[1][1]>>]
    ELSE [dim |-> 1, v |-> [i \in 1..Len(m) |-> m[i][1]]]

\* x - y with broadcasting, y a vector
BroadcastSub(x, y) ==
    IF x.dim = 0 THEN [j \in 1..Len(y) |-> FSub(Num(x.v[1]), y[j])]
    ELSE [j \in 1..Len(y) |-> FSub(Num(x.v[j]), y[j])]

\* a variant without the squeeze: (batch x 1) - (batch) broadcasts to a
\* batch x batch matrix, whose elements are all averaged
ComputeQLossNoSqueeze(norm_obs, a, tv) ==
    LET preds == Gather(eval_q(model, store, norm_obs), a)
        B     == Len(preds)
        diff  == [k \in 1..(B * B) |->
                     FSub(Num(preds[((k - 1) \div B) + 1][1]), tv[((k - 1) % B) + 1])]
    IN  Mean([k \in 1..(B * B) |-> FMul(diff[k], diff[k])])

\* loss = torch.mean((preds.squeeze() - tar_vals) ** 2)
ComputeQLoss(norm_obs, a, tv) ==
    LET preds == Gather(eval_q(model, store, norm_obs), a)
        diff  == BroadcastSub(Squeeze(preds), tv)
    IN  Mean([j \in 1..Len(diff) |-> FMul(diff[j], diff[j])])

----------------------------------------------------------------------------
(* The loss functions on drawn inputs (SpecLoss): one call per behaviour   *)

QRows2    == {<<1, 2>>, <<3, 4>>}
QRows3    == {<<1, 5, 3>>, <<4, 0, 4>>}
Discounts == {Num(0), Rat(1, 2), Rat(9, 10)}
Rewards   == {0, 2}
TarInputs == {Num(1), Num(5)}

NumActions == Len(store[model[1]])

\* the experience buffer the update samples from
ExpBuffer ==
    {[obs |-> 1, action |-> 0, reward |-> 2, next_obs |-> 2, done |-> 0],
     [obs |-> 2, action |-> 1, reward |-> 0, next_obs |-> 1, done |-> 1],
     [obs |-> 1, action |-> NumActions - 1, reward |-> 2, next_obs |-> 1, done |-> 0]}

Column(rows, f) == [i \in 1..Len(rows) |-> rows[i][f]]

ComputeTarValsCall ==
    /\ pc = "idle"
    /\ \E b \in 1..MaxBatch :
       \E r \in [1..b -> Rewards], next_obs \in [1..b -> 1..Len(tar_model)],
          done \in [1..b -> {0, 1}] :
          /\ batch' = [NoBatch EXCEPT !.reward = r, !.next_obs = next_obs, !.done = done]
          /\ tar_vals' = ComputeTarVals(r, normalize(next_obs), done)
    /\ pc' = "tar_done"
    /\ UNCHANGED <<netVars, trainVars, expCfg, actVars, discount, loss>>

ComputeQLossCall ==
    /\ pc = "idle"
    /\ \E b \in 1..MaxBatch :
       \E obs \in [1..b -> 1..Len(model)], a \in [1..b -> 0..(NumActions - 1)],
          tv \in [1..b -> TarInputs] :
          /\ batch' = [NoBatch EXCEPT !.obs = obs, !.action = a]
          /\ tar_vals' = tv
          /\ loss' = ComputeQLoss(normalize(obs), a, tv)
    /\ pc' = "loss_done"
    /\ UNCHANGED <<netVars, trainVars, expCfg, actVars, discount>>

\* _compute_loss on a batch sampled from the buffer
ComputeLossCall ==
    /\ pc = "idle"
    /\ \E rows \in Batches(ExpBuffer) :
          LET r    == Column(rows, "reward")
              done == Column(rows, "done")
              a    == Column(rows, "action")
              norm_obs      == normalize(Column(rows, "obs"))
              norm_next_obs == normalize(Column(rows, "next_obs"))
              tv == ComputeTarVals(r, norm_next_obs, done)
          IN  /\ batch' = [obs |-> Column(rows, "obs"), action |-> a, reward |-> r,
                           next_obs |-> Column(rows, "next_obs"), done |-> done]
              /\ tar_vals' = tv
              /\ loss' = ComputeQLoss(norm_obs, a, tv)
    /\ pc' = "both_done"
    /\ UNCHANGED <<netVars, trainVars, expCfg, actVars, discount>>

InitLoss ==
    /\ pc = "idle"
    /\ model = OnlineIds /\ tar_model = TargetIds
    /\ \E rows \in {QRows2, QRows3} : store \in [1..4 -> rows]
    /\ discount \in Discounts
    /\ batch = NoBatch /\ tar_vals = <<>> /\ loss = Num(0)
    /\ trainIdle /\ expIdle /\ actIdle

NextLoss == ComputeTarValsCall \/ ComputeQLossCall \/ ComputeLossCall

SpecLoss == InitLoss /\ [][NextLoss]_vars

\* m is the largest value of row
IsMaxOf(row, m) ==
    /\ \E j \in 1..Len(row) : row[j] = m
    /\ \A j \in 1..Len(row) : row[j] <= m

\* C8: every target value is reward + gamma * (1 - done) * the largest
\* Q-value the target network gives for next_obs: the reward itself for a
\* terminal sample, reward + gamma * max otherwise.
C8_BellmanTarget ==
    pc \in {"tar_done", "both_done"} =>
        /\ Len(tar_vals) = Len(batch.reward)
        /\ \A i \in 1..Len(tar_vals) :
              LET row == store[tar_model[batch.next_obs[i]]]
                  t   == tar_vals[i]
              IN  /\ t.k = "fin"
                  /\ batch.done[i] = 1 => t = Num(batch.reward[i])
                  /\ batch.done[i] = 0 =>
                        \E j \in 1..Len(row) :
                           /\ IsMaxOf(row, row[j])
                           /\ t.n * discount.d
                                  = t.d * (batch.reward[i] * discount.d
                                           + discount.n * row[j])

C8_Witness ==
    /\ pc = "tar_done"
    /\ discount = Rat(9, 10)
    /\ batch.reward = <<2, 2>> /\ batch.done = <<0, 1>> /\ batch.next_obs = <<1, 1>>
    /\ store[tar_model[1]] = <<1, 5, 3>>
    /\ store[model[1]] = <<4, 0, 4>>
    /\ tar_vals = <<Rat(13, 2), Num(2)>>

\* the sum over rows i of (Q_online(obs_i)[a_i] - tar_vals_i)^2
RECURSIVE SqErrSum(_)
SqErrSum(i) ==
    IF i = 0 THEN Num(0)
    ELSE LET e == FSub(Num(store[model[batch.obs[i]]][batch.action[i] + 1]), tar_vals[i])
         IN  FAdd(SqErrSum(i - 1), FMul(e, e))

\* C9: the loss is the mean over the batch rows of the squared difference
\* between the online Q-value of the row's own action and the row's own
\* target, for every batch size from 1 up.
C9_MeanSquaredTDError ==
    pc \in {"loss_done", "both_done"} =>
        /\ loss.k = "fin"
        /\ FMul(loss, Num(Len(batch.obs))) = SqErrSum(Len(batch.obs))

C9_Witness ==
    /\ pc = "loss_done"
    /\ store[model[1]] = <<1, 2>> /\ store[model[2]] = <<3, 4>>
    /\ batch.obs = <<1, 2>> /\ batch.action = <<0, 1>>
    /\ tar_vals = <<Num(1), Num(5)>>
    /\ loss = Rat(1, 2)

----------------------------------------------------------------------------
(* Properties of the exploration schedule (SpecExp) *)

Logged == {exp_log[i] : i \in 1..Len(exp_log)}

FMin(x, y) == IF FLess(y, x) THEN y ELSE x
FMax(x, y) == IF FLess(x, y) THEN y ELSE x
Between(x, lo, hi) == FLeq(FMin(lo, hi), x) /\ FLeq(x, FMax(lo, hi))

\* C3: with exp_anneal_samples = 0 every value _get_exp_prob returns, at
\* any sample count n >= 0 (n = 0 included), is exactly exp_prob_end.
C3_ZeroHorizonGivesEnd ==
    exp_anneal_samples = Num(0) => \A e \in Logged : e.p = exp_prob_end

\* C4: for a positive finite horizon N the value returned at sample count n
\* is p0 + (p1 - p0) * min(n, N) / N, hence p0 at n = 0 and p1 at n >= N;
\* for the infinite horizon it is p0 at every n.
C4_LinearAnneal ==
    \A e \in Logged :
        LET p0 == exp_prob_beg
            p1 == exp_prob_end
            N  == exp_anneal_samples.n
            m  == IF e.n < N THEN e.n ELSE N
        IN  /\ (exp_anneal_samples.k = "fin" /\ N > 0) =>
                /\ e.p.k = "fin"
                /\ e.p.n * (N * p0.d * p1.d)
                       = e.p.d * ((N - m) * p0.n * p1.d + m * p1.n * p0.d)
                /\ (e.n = 0 => e.p = p0)
                /\ (e.n >= N => e.p = p1)
            /\ exp_anneal_samples.k = "inf" => e.p = p0

C4_Witness ==
    /\ exp_anneal_samples = Num(2)
    /\ exp_prob_beg = Num(1) /\ exp_prob_end = Num(0)
    /\ Len(exp_log) = 2
    /\ exp_log[1] = [n |-> 1, p |-> Rat(1, 2)]
    /\ exp_log[2] = [n |-> 3, p |-> Num(0)]

\* C5: whatever the horizon, every value returned while the sample counter
\* grows lies between exp_prob_beg and exp_prob_end, and a later value is
\* never farther from exp_prob_end than an earlier one.
C5_InRangeAndMonotone ==
    /\ \A e \in Logged : Between(e.p, exp_prob_beg, exp_prob_end)
    /\ Len(exp_log) = 2 =>
          /\ exp_log[1].n <= exp_log[2].n
          /\ Between(exp_log[2].p, exp_log[1].p, exp_prob_end)

----------------------------------------------------------------------------
(* Properties of the action choice (SpecAct) *)

\* i0 is the 0-based index of the first maximal value of row
IsFirstMax(row, i0) ==
    /\ i0 + 1 \in 1..Len(row)
    /\ \A j \in 1..Len(row) : row[j] <= row[i0 + 1]
    /\ \A j \in 1..i0 : row[j] < row[i0 + 1]

\* C6: in TEST mode, and in TRAIN mode when epsilon is 0, every row gets the
\* index of its first maximal Q-value; in TEST mode no coin is flipped.
C6_GreedyWhenTestOrEpsZero ==
    /\ (act.mode = "TEST" \/ (act.mode = "TRAIN" /\ act.exp_prob = Num(0))) =>
          \A r \in Rows(act.qs) : IsFirstMax(act.qs[r], act.a[r])
    /\ act.mode = "TEST" => act.flips = 0

C6_Witness ==
    /\ act.mode = "TEST"
    /\ GetExpProb(sample_count, exp_anneal_samples, exp_prob_beg, exp_prob_end) = Num(1)
    /\ sample_count > 0
    /\ act.qs = <<<<1, 1>>, <<1, 0>>>>
    /\ act.a = <<0, 0>>

\* C7: one TRAIN-mode call flips one coin; its result is greedy in every
\* row, or drawn from 0..num_actions-1 in every row, never a mixture.
C7_OneCoinPerCall ==
    act.mode = "TRAIN" =>
        /\ act.flips = 1
        /\ \/ \A r \in Rows(act.qs) :
                  ~act.drawn[r] /\ IsFirstMax(act.qs[r], act.a[r])
           \/ \A r \in Rows(act.qs) :
                  act.drawn[r] /\ act.a[r] \in 0..(Len(act.qs[r]) - 1)

C7_Witness ==
    /\ act.mode = "TRAIN"
    /\ act.exp_prob = Rat(1, 2)
    /\ act.qs = <<<<0, 1>>, <<0, 1>>>>
    /\ act.drawn = <<TRUE, TRUE>>
    /\ act.a = <<1, 0>>

====
